---- MODULE Spec2Model ----
(***************************************************************************)
(* Model of mcp_server.py: the status registry (/report, /api/status), the *)
(* remediation trigger (/remediate/{service}) and the remediate()          *)
(* background coroutine with the Elasticsearch resource locator and the    *)
(* port-forward helpers.                                                   *)
(*                                                                         *)
(* The server is one uvicorn process with one asyncio event loop.  Every   *)
(* handler is "async def", and remediate() is an "async def" run by        *)
(* BackgroundTasks on the same loop, so a coroutine keeps the loop from    *)
(* the moment it is resumed until it reaches "await asyncio.sleep".        *)
(* subprocess.run and time.sleep do not yield.  The variable loop holds    *)
(* the task that owns the event loop, and inflight says whether that task  *)
(* is inside a subprocess call or a time.sleep.                            *)
(*                                                                         *)
(* Strings built by f-strings are sequences of their fragments.  Names     *)
(* that take part in the registry key are sequences of tokens, so that     *)
(* f"{cluster}-{service}" is a real concatenation.                         *)
(***************************************************************************)
EXTENDS Integers, Sequences, FiniteSets, TLC

VARIABLES
    status,           \* mcp_server.status: key -> health record
    remediation_log,  \* mcp_server.remediation_log
    tasks,            \* one record per remediate() invocation: position and locals
    loop,             \* the task that owns the event loop, or NoTask
    inflight,         \* "none", "cmd" (inside subprocess.run/Popen), "sleep" (inside time.sleep)
    response,         \* the HTTP response a handler has returned and that is being sent
    tunnels,          \* alive "kubectl port-forward" processes: [owner, service]
    reported          \* per (cluster, service): the last report body received for the pair

vars == <<status, remediation_log, tasks, loop, inflight, response, tunnels, reported>>

\* Number of remediate() invocations a run may trigger.
NumTasks == 2

Tasks == 1..NumTasks
NoTask == 0
None == "None"

CLUSTER_NAME == "casbx-mgmt-plane-us-central1"

PORT_FORWARDS ==
    [vault         |-> [namespace |-> "vault", service |-> "vault", port |-> 8200],
     consul        |-> [namespace |-> "consul", service |-> "consul-server", port |-> 8500],
     elasticsearch |-> [namespace |-> "elasticsearch", service |-> "elasticsearch-master", port |-> 9200]]

search_configs ==
    << <<"elasticsearch", "elasticsearch-master", "elasticsearch-master">>,
       <<"elasticsearch", "elasticsearch", "elasticsearch">>,
       <<"elasticsearch", "elasticsearch-master", "elasticsearch">>,
       <<"elasticsearch", "elasticsearch-master", "elasticsearch-master">>,
       <<"default", "elasticsearch", "elasticsearch">>,
       <<"logging", "elasticsearch", "elasticsearch">> >>

common_patterns ==
    << <<"elasticsearch", "elasticsearch-master">>,
       <<"elasticsearch", "elasticsearch">>,
       <<"elasticsearch", "elasticsearch-master">> >>

\* range(3) of the locator, range(6) of the readiness poll
DetectionAttempts == 3
ReadyPolls == 6

(***************************************************************************)
(* Inputs                                                                  *)
(***************************************************************************)
\* service names a trigger may carry; "redis" stands for every other name
ServiceNames == {"vault", "consul", "elasticsearch", "redis"}

\* how a subprocess call can end: exit 0, exit non-zero, TimeoutExpired,
\* any other exception (OSError: the binary is missing, ...)
CmdResults == {"ok", "nonzero", "timeout", "oserror"}
Stderrs == {"", "denied"}

\* what {.spec.replicas} can be; stdout of a successful read may also be
\* empty or not a number
ReplicaValues == {0, 2}
ReplicaReads == {"number", "empty", "garbage"}

\* stdout of "kubectl get svc -n ns -o name", one name per line
\* a line is <<prefix, name>>; an empty stdout splits into one empty line
ServiceListings ==
    { << <<"", "">> >>,
      << <<"service/", "kibana">> >>,
      << <<"service/", "kibana">>, <<"service/", "Elasticsearch-data">>,
         <<"service/", "elasticsearch-master">> >> }

\* report bodies: cluster and service are required, the rest is optional
\* (cluster, service) pairs that send reports
ReportTargets ==
    { << <<"c1">>, <<"vault">> >>,
      << <<"c1">>, <<"eu", "-", "vault">> >>,
      << <<"c1", "-", "eu">>, <<"vault">> >> }
WithField(R, k, V) == R \cup { (k :> v) @@ r : r \in R, v \in V }
Reports ==
    WithField(
        WithField(
            WithField({ [cluster |-> p[1], service |-> p[2]] : p \in ReportTargets },
                      "healthy", BOOLEAN),
            "details", {"status 500"}),
        "consul_host", {"localhost:8200"})

\* what agent.py sends for a vault that does not answer
AgentReports ==
    { [cluster |-> <<"c1">>, service |-> <<"vault">>, healthy |-> FALSE,
       details |-> "Connection refused - Vault may be down", consul_host |-> "localhost:8200"] }

\* what main.py sends for vault and consul: no consul_host
MainReports ==
    { [cluster |-> <<"c1">>, service |-> sv, healthy |-> h, details |-> ""] :
        sv \in {<<"vault">>, <<"consul">>}, h \in BOOLEAN }

(***************************************************************************)
(* Status registry                                                         *)
(***************************************************************************)
\* dict.get(k, default)
Get(d, k, default) == IF k \in DOMAIN d THEN d[k] ELSE default

\* f"{report['cluster']}-{report['service']}"
ReportKey(report) == report.cluster \o <<"-">> \o report.service

HealthRecord(report) ==
    [healthy     |-> Get(report, "healthy", FALSE),
     details     |-> Get(report, "details", ""),
     consul_host |-> Get(report, "consul_host", "N/A")]

NoResponse == [for |-> "none"]
Idle == loop = NoTask /\ response.for = "none"

\* mutant: the registry is rebuilt from the report ("status = {key: ...}")
receive_report_reset(report) ==
    /\ Idle
    /\ status' = (ReportKey(report) :> HealthRecord(report))
    /\ reported' = (<<report.cluster, report.service>> :> report) @@ reported
    /\ response' = [for |-> "report", message |-> "Report received", key |-> ReportKey(report)]
    /\ UNCHANGED <<remediation_log, tasks, loop, inflight, tunnels>>

receive_report(report) ==
    /\ Idle
    /\ status' = (ReportKey(report) :> HealthRecord(report)) @@ status
    /\ reported' = (<<report.cluster, report.service>> :> report) @@ reported
    /\ response' = [for |-> "report", message |-> "Report received", key |-> ReportKey(report)]
    /\ UNCHANGED <<remediation_log, tasks, loop, inflight, tunnels>>

StatusBody ==
    [cluster          |-> CLUSTER_NAME,
     status           |-> status,
     remediation_log  |-> remediation_log,
     total_services   |-> Cardinality(DOMAIN status),
     healthy_services |-> Cardinality({k \in DOMAIN status : status[k].healthy})]

get_status ==
    /\ Idle
    /\ response' = [for |-> "status", body |-> StatusBody]
    /\ UNCHANGED <<status, remediation_log, tasks, loop, inflight, tunnels, reported>>

(***************************************************************************)
(* Remediation trigger                                                     *)
(***************************************************************************)
\* nothing located, nothing failed
NoLocation == [idx |-> 0, svc |-> None, list |-> None, lines |-> <<>>]
NoFailure == [at |-> None, res |-> None, err |-> ""]

InitTask ==
    [pc |-> "idle", service |-> None,
     namespace |-> None, statefulset_name |-> None, service_name |-> None,
     default_replicas |-> 0, current_replicas |-> 0,
     attempt |-> 0, idx |-> 0, i |-> 0,
     real_replicas |-> 0,   \* what .spec.replicas really was when it was read
     looked |-> FALSE,      \* a discovery lookup (get all/namespace/statefulset/service) was run
     located |-> NoLocation,      \* what find_elasticsearch_resources has just returned from:
                            \* the candidate and the results of its service lookups
     ready |-> FALSE,       \* the last readiness poll exited 0
     failure |-> NoFailure,     \* the validation, scale or restart command that did not exit 0,
                            \* and how it ended
     cmds |-> <<>>,         \* the other commands run, in order
     appends |-> <<>>]      \* positions of remediation_log this invocation appended at

\* mutant: the handler runs the remediation itself ("await remediate(service)")
\* before it answers
remediate_service_inline(t, service) ==
    /\ Idle
    /\ tasks[t].pc = "idle"
    /\ \A u \in 1..(t - 1) : tasks[u].pc # "idle"
    /\ remediation_log' = Append(remediation_log,
            [cluster |-> CLUSTER_NAME, service |-> service, status |-> "failed",
             message |-> <<"No remediation implemented for service '", service, "'">>])
    /\ tasks' = [tasks EXCEPT ![t] = [@ EXCEPT !.pc = "queued", !.service = service,
                                               !.appends = <<Len(remediation_log) + 1>>]]
    /\ response' = [for |-> "trigger",
                    message |-> <<"Remediation started for ", service>>,
                    service |-> service]
    /\ UNCHANGED <<status, loop, inflight, tunnels, reported>>

\* POST /remediate/{service}: add_task and return; Starlette sends the
\* response and then awaits the background task on the same event loop.
remediate_service(t, service) ==
    /\ Idle
    /\ tasks[t].pc = "idle"
    /\ \A u \in 1..(t - 1) : tasks[u].pc # "idle"
    /\ tasks' = [tasks EXCEPT ![t] = [@ EXCEPT !.pc = "queued", !.service = service]]
    /\ response' = [for |-> "trigger",
                    message |-> <<"Remediation started for ", service>>,
                    service |-> service]
    /\ UNCHANGED <<status, remediation_log, loop, inflight, tunnels, reported>>

\* the response leaves; a queued background task starts running
SendResponse ==
    /\ response.for # "none"
    /\ response' = NoResponse
    /\ IF \E t \in Tasks : tasks[t].pc = "queued"
       THEN LET t == CHOOSE u \in Tasks : tasks[u].pc = "queued"
            IN  /\ tasks' = [tasks EXCEPT ![t].pc = "dispatch"]
                /\ loop' = t
       ELSE UNCHANGED <<tasks, loop>>
    /\ UNCHANGED <<status, remediation_log, inflight, tunnels, reported>>

(***************************************************************************)
(* remediate(): messages and outcomes                                      *)
(***************************************************************************)
Outcome(service, st, message) ==
    [cluster |-> CLUSTER_NAME, service |-> service, status |-> st, message |-> message]

\* mutant: the entry is put in front
LogAppend_front(log, entry) == <<entry>> \o log

\* remediation_log.append(entry)
LogAppend(log, entry) == Append(log, entry)

\* mutant: the message does not name the service
NoRemediationMessage_generic(service) == <<"No remediation implemented">>

NoRemediationMessage(service) ==
    <<"No remediation implemented for service '", service, "'">>

\* error_details: one "  - ns/sts\n" line per pattern of the list
RECURSIVE TriedLines(_)
TriedLines(patterns) ==
    IF patterns = <<>> THEN <<>>
    ELSE <<"  - ", Head(patterns)[1], "/", Head(patterns)[2], "\n">> \o TriedLines(Tail(patterns))

UnexpectedMessage(text) == <<"Unexpected error during remediation: ">> \o text

NotFoundText ==
    <<"Elasticsearch not found. ", "Tried these combinations:\n">>
        \o TriedLines(common_patterns)
        \o <<"Run 'kubectl get statefulset -A | grep -i elastic' to find it manually.">>

MissingStsText(r, err) ==
    <<"StatefulSet ", r.statefulset_name, " not found in namespace ", r.namespace,
      ". Error: ", err>>

ScaleFailedText(r) == <<"Failed to scale ", r.service, " back up">>

\* str(e) of the exceptions the model raises
OSErrorText == <<"[Errno 2] No such file or directory: 'kubectl'">>
CalledProcessText == "Command returned non-zero exit status 1."

\* mutant: the stderr of the failed command is dropped
KubectlFailedMessage_bare(err) == <<"Kubectl command failed">>

KubectlFailedMessage(err) ==
    <<"Kubectl command failed: ", IF err # "" THEN err ELSE CalledProcessText>>

TimedOutMessage == <<"Remediation command timed out">>

\* mutant: the result of start_port_forward is ignored
port_msg_ignored(started, service) ==
    <<" Port-forward restarted on port ", ToString(PORT_FORWARDS[service].port), ".">>

port_msg(started, service) ==
    IF started
    THEN <<" Port-forward restarted on port ", ToString(PORT_FORWARDS[service].port), ".">>
    ELSE <<" Warning: Failed to restart port-forward - you may need to restart manually.">>

\* mutant: the message never mentions the rescale
SuccessMessage_rolling(r, started) ==
    <<"Remediation completed for ", r.service, ".", " Performed rolling restart.">>
        \o port_msg(started, r.service)
        \o <<" Found in namespace: ", r.namespace, " as StatefulSet: ", r.statefulset_name, ".">>

SuccessMessage(r, started) ==
    <<"Remediation completed for ", r.service, ".">>
        \o (IF r.current_replicas = 0
            THEN <<" Scaled from 0 to ", ToString(r.default_replicas), " replicas and restarted.">>
            ELSE <<" Performed rolling restart.">>)
        \o port_msg(started, r.service)
        \o <<" Found in namespace: ", r.namespace, " as StatefulSet: ", r.statefulset_name, ".">>

(***************************************************************************)
(* remediate(): control flow.  A step of task t needs the event loop.      *)
(***************************************************************************)
\* positions inside time.sleep (the loop is kept) and inside
\* "await asyncio.sleep" (the loop is given up)
SleepPcs == {"find_sleep", "kill_sleep", "pf_sleep"}
AwaitPcs == {"warmup", "rollout_wait", "poll_sleep"}
\* positions at a subprocess call: discovery lookups, and the rest
LookupPcs == {"es_list", "find_ns", "find_sts", "find_svc", "find_allsvc", "fallback"}
CommandPcs == {"check_sts", "get_replicas", "scale", "restart", "poll", "kill_pf", "start_pf"}

\* the coroutine goes on to position r.pc, keeping the loop unless r.pc awaits
Goto(t, r) ==
    /\ tasks' = [tasks EXCEPT ![t] = r]
    /\ inflight' = IF r.pc \in SleepPcs THEN "sleep" ELSE "none"
    /\ loop' = IF r.pc \in AwaitPcs THEN NoTask ELSE t
    /\ UNCHANGED <<status, remediation_log, response, reported>>

\* the coroutine appends its outcome; it still has to log and return
Finish(t, r, st, message) ==
    /\ remediation_log' = LogAppend(remediation_log, Outcome(r.service, st, message))
    /\ tasks' = [tasks EXCEPT ![t] =
                    [r EXCEPT !.pc = "done", !.appends = Append(@, Len(remediation_log) + 1)]]
    /\ inflight' = "none"
    /\ loop' = t
    /\ UNCHANGED <<status, response, reported>>

\* the coroutine returns: its frame is gone, the event loop is free
Exit(t) ==
    /\ loop = t /\ inflight = "none" /\ tasks[t].pc = "done"
    /\ tasks' = [tasks EXCEPT ![t] =
                    [InitTask EXCEPT !.pc = "returned", !.service = tasks[t].service,
                                     !.appends = tasks[t].appends]]
    /\ loop' = NoTask
    /\ UNCHANGED <<status, remediation_log, inflight, response, tunnels, reported>>

\* mutant: only CalledProcessError is caught; a timeout or another exception
\* ends the coroutine without an outcome
Raise_uncaught(t, r, res, err) ==
    IF res = "nonzero" THEN Finish(t, r, "failed", <<"Kubectl command failed: ", err>>)
    ELSE /\ tasks' = [tasks EXCEPT ![t] = [r EXCEPT !.pc = "done"]]
         /\ inflight' = "none"
         /\ loop' = t
         /\ UNCHANGED <<status, remediation_log, response, reported>>

\* how the command at position r.pc ended when it did not exit 0
Failed(r, res, err) ==
    [r EXCEPT !.failure = [at |-> r.pc, res |-> res, err |-> IF res = "nonzero" THEN err ELSE ""]]

\* the except clauses of remediate() for a command run with check=True or
\* whose exception is not caught locally
Raise(t, r, res, err) ==
    CASE res = "nonzero" -> Finish(t, r, "failed", KubectlFailedMessage(err))
      [] res = "timeout" -> Finish(t, r, "failed", TimedOutMessage)
      [] OTHER           -> Finish(t, r, "failed", UnexpectedMessage(OSErrorText))

At(t, p) == loop = t /\ inflight = "none" /\ tasks[t].pc = p
Returned(t, p) == loop = t /\ inflight = "cmd" /\ tasks[t].pc = p
Slept(t, p) == loop = t /\ inflight = "sleep" /\ tasks[t].pc = p

\* lines 249-322: the dispatch on the service name
Dispatch(t) ==
    /\ At(t, "dispatch")
    /\ LET r == tasks[t] IN
       CASE r.service = "vault" ->
              Goto(t, [r EXCEPT !.namespace = "vault", !.statefulset_name = "vault",
                                !.service_name = "vault", !.default_replicas = 1,
                                !.pc = "check_sts"])
         [] r.service = "consul" ->
              Goto(t, [r EXCEPT !.namespace = "consul", !.statefulset_name = "consul-server",
                                !.service_name = "consul-server", !.default_replicas = 3,
                                !.pc = "check_sts"])
         [] r.service = "elasticsearch" ->
              Goto(t, [r EXCEPT !.pc = "es_list"])
         [] OTHER ->
              Finish(t, r, "failed", NoRemediationMessage(r.service))
    /\ UNCHANGED tunnels

\* the argv of the command at position r.pc
Command(r) ==
    CASE r.pc = "check_sts"    -> [op |-> "get statefulset", name |-> r.statefulset_name,
                                   namespace |-> r.namespace, replicas |-> -1]
      [] r.pc = "get_replicas" -> [op |-> "get replicas", name |-> r.statefulset_name,
                                   namespace |-> r.namespace, replicas |-> -1]
      [] r.pc = "scale"        -> [op |-> "scale", name |-> r.statefulset_name,
                                   namespace |-> r.namespace, replicas |-> r.default_replicas]
      [] r.pc = "restart"      -> [op |-> "rollout restart", name |-> r.statefulset_name,
                                   namespace |-> r.namespace, replicas |-> -1]
      [] r.pc = "poll"         -> [op |-> "get svc", name |-> r.service_name,
                                   namespace |-> r.namespace, replicas |-> -1]
      [] r.pc = "kill_pf"      -> [op |-> "pkill", name |-> r.service,
                                   namespace |-> "", replicas |-> -1]
      [] r.pc = "start_pf"     -> [op |-> "port-forward", name |-> r.service_name,
                                   namespace |-> r.namespace, replicas |-> -1]

\* subprocess.run / Popen is entered: the event loop stays with the task
Issue(t) ==
    /\ loop = t /\ inflight = "none"
    /\ tasks[t].pc \in LookupPcs \cup CommandPcs
    /\ inflight' = "cmd"
    /\ tasks' = [tasks EXCEPT ![t] =
                    IF @.pc \in LookupPcs THEN [@ EXCEPT !.looked = TRUE]
                    ELSE [@ EXCEPT !.cmds = Append(@, Command(tasks[t])), !.located = NoLocation]]
    /\ UNCHANGED <<status, remediation_log, loop, response, tunnels, reported>>

(***************************************************************************)
(* find_elasticsearch_resources() and the fallback patterns                *)
(***************************************************************************)
\* str.lower() and the test 'elasticsearch' in name, on the names of the model
Lower(name) == IF name = "Elasticsearch-data" THEN "elasticsearch-data" ELSE name
\* mutant: the name is compared, not searched
ContainsElasticsearch_exact(name) == name = "elasticsearch"

ContainsElasticsearch(name) ==
    name \in {"elasticsearch", "elasticsearch-master", "elasticsearch-data"}

\* line.replace('service/', '')
StripService(line) == line[2]

\* the first listed service whose lower-cased name contains 'elasticsearch'
RECURSIVE FirstElasticsearchService(_)
FirstElasticsearchService(lines) ==
    IF lines = <<>> THEN None
    ELSE IF ContainsElasticsearch(Lower(StripService(Head(lines))))
         THEN StripService(Head(lines))
         ELSE FirstElasticsearchService(Tail(lines))

\* mutant: the locator starts over after its last round ("while True")
NextCandidate_restart(r) ==
    IF r.idx < Len(search_configs) THEN [r EXCEPT !.pc = "find_ns", !.idx = @ + 1]
    ELSE IF r.attempt < DetectionAttempts - 1 THEN [r EXCEPT !.pc = "find_sleep"]
    ELSE [r EXCEPT !.pc = "find_ns", !.attempt = 0, !.idx = 1]

\* "continue", the end of a round (time.sleep(5) unless it was the last)
\* and the return of (None, None, None), after which remediate() tries
\* common_patterns
NextCandidate(r) ==
    IF r.idx < Len(search_configs) THEN [r EXCEPT !.pc = "find_ns", !.idx = @ + 1]
    ELSE IF r.attempt < DetectionAttempts - 1 THEN [r EXCEPT !.pc = "find_sleep"]
    ELSE [r EXCEPT !.pc = "fallback", !.attempt = 0, !.idx = 1, !.default_replicas = 3]

\* return namespace, sts_name, service name (or the pattern that matched);
\* default_replicas = 3 of line 280; remediate() goes on at line 324
Found(r, ns, sts, svc) ==
    [r EXCEPT !.namespace = ns, !.statefulset_name = sts, !.service_name = svc,
              !.default_replicas = 3, !.attempt = 0, !.idx = 0, !.pc = "check_sts"]

\* lines 266-279: "kubectl get all -n elasticsearch"; its result is only logged
ListReturns(t) ==
    /\ Returned(t, "es_list")
    /\ \E res \in CmdResults :
         Goto(t, [tasks[t] EXCEPT !.pc = "find_ns", !.attempt = 0, !.idx = 1])
    /\ UNCHANGED tunnels

FindNsReturns(t) ==
    /\ Returned(t, "find_ns")
    /\ \E res \in CmdResults :
         Goto(t, IF res = "ok" THEN [tasks[t] EXCEPT !.pc = "find_sts"]
                 ELSE NextCandidate(tasks[t]))
    /\ UNCHANGED tunnels

FindStsReturns(t) ==
    /\ Returned(t, "find_sts")
    /\ \E res \in CmdResults :
         Goto(t, IF res = "ok" THEN [tasks[t] EXCEPT !.pc = "find_svc"]
                 ELSE NextCandidate(tasks[t]))
    /\ UNCHANGED tunnels

FindSvcReturns(t) ==
    /\ Returned(t, "find_svc")
    /\ LET r == tasks[t]
           c == search_configs[r.idx]
       IN  \E res \in CmdResults :
             Goto(t, CASE res = "ok"      ->
                              [Found(r, c[1], c[2], c[3]) EXCEPT
                                  !.located = [idx |-> r.idx, svc |-> res, list |-> None, lines |-> <<>>]]
                       [] res = "nonzero" -> [r EXCEPT !.pc = "find_allsvc"]
                       [] OTHER           -> NextCandidate(r))
    /\ UNCHANGED tunnels

FindAllSvcReturns(t) ==
    /\ Returned(t, "find_allsvc")
    /\ LET r == tasks[t]
           c == search_configs[r.idx]
       IN  \E res \in CmdResults, lines \in ServiceListings :
             Goto(t, CASE res = "ok" /\ FirstElasticsearchService(lines) # None ->
                              [Found(r, c[1], c[2], FirstElasticsearchService(lines)) EXCEPT
                                  !.located = [idx |-> r.idx, svc |-> "nonzero", list |-> res, lines |-> lines]]
                       [] res \in {"ok", "nonzero"} /\ ~(res = "ok" /\ FirstElasticsearchService(lines) # None) ->
                              [Found(r, c[1], c[2], c[2]) EXCEPT
                                  !.located = [idx |-> r.idx, svc |-> "nonzero", list |-> res,
                                               lines |-> IF res = "ok" THEN lines ELSE <<>>]]
                       [] OTHER -> NextCandidate(r))
    /\ UNCHANGED tunnels

\* time.sleep(5) between two rounds
FindSleepEnds(t) ==
    /\ Slept(t, "find_sleep")
    /\ Goto(t, [tasks[t] EXCEPT !.pc = "find_ns", !.attempt = @ + 1, !.idx = 1])
    /\ UNCHANGED tunnels

\* lines 282-312
FallbackReturns(t) ==
    /\ Returned(t, "fallback")
    /\ LET r == tasks[t]
           c == common_patterns[r.idx]
       IN  \E res \in CmdResults :
             IF res = "ok" THEN Goto(t, Found(r, c[1], c[2], c[2]))
             ELSE IF r.idx < Len(common_patterns) THEN Goto(t, [r EXCEPT !.idx = @ + 1])
             ELSE Finish(t, r, "failed", UnexpectedMessage(NotFoundText))
    /\ UNCHANGED tunnels

(***************************************************************************)
(* remediate(): validate, rescale, restart, await ready                    *)
(***************************************************************************)
\* lines 326-333
CheckStsReturns(t) ==
    /\ Returned(t, "check_sts")
    /\ LET r == tasks[t] IN
       \E res \in CmdResults, err \in Stderrs :
         CASE res = "ok"      -> Goto(t, [r EXCEPT !.pc = "get_replicas"])
           [] res = "nonzero" -> Finish(t, Failed(r, res, err), "failed",
                                        UnexpectedMessage(MissingStsText(r, err)))
           [] OTHER           -> Raise(t, Failed(r, res, err), res, err)
    /\ UNCHANGED tunnels

\* get_statefulset_replicas: the number printed, 0 for every failure
ReadReplicas(res, read, real) == IF res = "ok" /\ read = "number" THEN real ELSE 0

\* mutant: the rescale is skipped
AfterReplicas_noscale(current_replicas) == "restart"

\* line 340
AfterReplicas(current_replicas) == IF current_replicas = 0 THEN "scale" ELSE "restart"

GetReplicasReturns(t) ==
    /\ Returned(t, "get_replicas")
    /\ \E res \in CmdResults, read \in ReplicaReads, real \in ReplicaValues :
         Goto(t, [tasks[t] EXCEPT !.current_replicas = ReadReplicas(res, read, real),
                                  !.real_replicas = real,
                                  !.pc = AfterReplicas(ReadReplicas(res, read, real))])
    /\ UNCHANGED tunnels

\* mutant: the result of scale_statefulset is not looked at
ScaleReturns_ignored(t) ==
    /\ Returned(t, "scale")
    /\ LET r == tasks[t] IN
       \E res \in CmdResults :
         IF res = "ok" THEN Goto(t, [r EXCEPT !.pc = "warmup"])
         ELSE Goto(t, [Failed(r, res, "") EXCEPT !.pc = "warmup"])
    /\ UNCHANGED tunnels

\* scale_statefulset and lines 342-348
ScaleReturns(t) ==
    /\ Returned(t, "scale")
    /\ LET r == tasks[t] IN
       \E res \in CmdResults :
         IF res = "ok" THEN Goto(t, [r EXCEPT !.pc = "warmup"])
         ELSE Finish(t, Failed(r, res, ""), "failed", UnexpectedMessage(ScaleFailedText(r)))
    /\ UNCHANGED tunnels

\* mutant: a failed restart still restores the tunnel ("finally:")
RestartReturns_restore(t) ==
    /\ Returned(t, "restart")
    /\ LET r == tasks[t] IN
       \E res \in CmdResults, err \in Stderrs :
         IF res = "ok" THEN Goto(t, [r EXCEPT !.pc = "rollout_wait"])
         ELSE Goto(t, [Failed(r, res, err) EXCEPT !.pc = "kill_pf"])
    /\ UNCHANGED tunnels

\* lines 352-360
RestartReturns(t) ==
    /\ Returned(t, "restart")
    /\ LET r == tasks[t] IN
       \E res \in CmdResults, err \in Stderrs :
         IF res = "ok" THEN Goto(t, [r EXCEPT !.pc = "rollout_wait"])
         ELSE Raise(t, Failed(r, res, err), res, err)
    /\ UNCHANGED tunnels

\* mutant: the last poll failing fails the attempt
PollReturns_strict(t) ==
    /\ Returned(t, "poll")
    /\ LET r == tasks[t] IN
       \E res \in CmdResults :
         IF res # "ok" /\ r.i = ReadyPolls - 1
         THEN Finish(t, r, "failed", <<"Service ", r.service_name, " is not ready">>)
         ELSE Goto(t, [r EXCEPT !.pc = IF res = "ok" THEN "kill_pf" ELSE "poll_sleep",
                                !.ready = (res = "ok")])
    /\ UNCHANGED tunnels

\* lines 364-377: break on exit 0, else await asyncio.sleep(10)
PollReturns(t) ==
    /\ Returned(t, "poll")
    /\ \E res \in CmdResults :
         Goto(t, [tasks[t] EXCEPT !.pc = IF res = "ok" THEN "kill_pf" ELSE "poll_sleep",
                                  !.ready = (res = "ok")])
    /\ UNCHANGED tunnels

\* an "await asyncio.sleep" ends and the event loop resumes the coroutine
Wake(t) ==
    /\ Idle
    /\ tasks[t].pc \in AwaitPcs
    /\ LET r == tasks[t] IN
       tasks' = [tasks EXCEPT ![t] =
         CASE r.pc = "warmup"       -> [r EXCEPT !.pc = "restart"]
           [] r.pc = "rollout_wait" -> [r EXCEPT !.pc = "poll", !.i = 0]
           [] r.pc = "poll_sleep"   ->
                IF r.i + 1 < ReadyPolls THEN [r EXCEPT !.pc = "poll", !.i = @ + 1]
                ELSE [r EXCEPT !.pc = "kill_pf"]]
    /\ loop' = t
    /\ UNCHANGED <<status, remediation_log, inflight, response, tunnels, reported>>

(***************************************************************************)
(* start_port_forward / kill_port_forward, and the success outcome         *)
(***************************************************************************)
\* pkill has no timeout; an exception skips the time.sleep(2)
KillResults == {"ok", "nonzero", "oserror"}

\* the processes left after "pkill -f kubectl port-forward.*port"
Killed(tun, service, res) ==
    IF res = "ok" THEN {p \in tun : p.service # service} ELSE tun

KillReturns(t) ==
    /\ Returned(t, "kill_pf")
    /\ \E res \in KillResults :
         /\ Goto(t, [tasks[t] EXCEPT !.pc = IF res = "oserror" THEN "start_pf" ELSE "kill_sleep"])
         /\ tunnels' = Killed(tunnels, tasks[t].service, res)

KillSleepEnds(t) ==
    /\ Slept(t, "kill_sleep")
    /\ Goto(t, [tasks[t] EXCEPT !.pc = "start_pf"])
    /\ UNCHANGED tunnels

\* open(logfile) and Popen: the process is spawned, or an exception makes
\* start_port_forward return False
StartReturns(t) ==
    /\ Returned(t, "start_pf")
    /\ LET r == tasks[t] IN
       \/ /\ Goto(t, [r EXCEPT !.pc = "pf_sleep"])
          /\ tunnels' = tunnels \cup {[owner |-> t, service |-> r.service]}
       \/ /\ Finish(t, r, "success", SuccessMessage(r, FALSE))
          /\ UNCHANGED tunnels

\* after time.sleep(3): process.poll() is None, or the process has exited
\* (a second listener on the port cannot stay)
StartSleepEnds(t) ==
    /\ Slept(t, "pf_sleep")
    /\ LET r == tasks[t]
           own == [owner |-> t, service |-> r.service]
       IN  \/ /\ \A p \in tunnels : p.service = r.service => p = own
              /\ Finish(t, r, "success", SuccessMessage(r, TRUE))
              /\ UNCHANGED tunnels
           \/ /\ Finish(t, r, "success", SuccessMessage(r, FALSE))
              /\ tunnels' = tunnels \ {own}

(***************************************************************************)
(* The system                                                              *)
(***************************************************************************)
Init ==
    /\ status = [k \in {} |-> 0]
    /\ remediation_log = <<>>
    /\ tasks = [t \in Tasks |-> InitTask]
    /\ loop = NoTask
    /\ inflight = "none"
    /\ response = NoResponse
    /\ tunnels = {}
    /\ reported = [k \in {} |-> 0]

Remediate(t) ==
    \/ Dispatch(t)
    \/ Issue(t)
    \/ ListReturns(t)
    \/ FindNsReturns(t)
    \/ FindStsReturns(t)
    \/ FindSvcReturns(t)
    \/ FindAllSvcReturns(t)
    \/ FindSleepEnds(t)
    \/ FallbackReturns(t)
    \/ CheckStsReturns(t)
    \/ GetReplicasReturns(t)
    \/ ScaleReturns(t)
    \/ RestartReturns(t)
    \/ PollReturns(t)
    \/ Wake(t)
    \/ KillReturns(t)
    \/ KillSleepEnds(t)
    \/ StartReturns(t)
    \/ StartSleepEnds(t)
    \/ Exit(t)

\* the remediation path: triggers and the background coroutines
Next ==
    \/ \E t \in Tasks, service \in ServiceNames : remediate_service(t, service)
    \/ SendResponse
    \/ \E t \in Tasks : Remediate(t)

Spec == Init /\ [][Next]_vars

\* services whose resources remediate() knows without the locator, and "redis"
FixedServices == {"vault", "redis"}

\* the remediation path with one invocation for any service and the later,
\* concurrent ones for services with fixed resources
NextFair ==
    \/ \E service \in ServiceNames : remediate_service(1, service)
    \/ \E t \in Tasks \ {1}, service \in FixedServices : remediate_service(t, service)
    \/ SendResponse
    \/ \E t \in Tasks : Remediate(t)

\* fair scheduling: a response that is being sent leaves, every external
\* command returns or times out, every sleep ends, and the event loop resumes
\* a coroutine that is ready to run
SpecFair ==
    /\ Init /\ [][NextFair]_vars
    /\ WF_vars(SendResponse)
    /\ \A t \in Tasks : WF_vars(Remediate(t))

\* the whole server: reports and status queries beside the remediation path
NextSystem ==
    \/ \E report \in AgentReports : receive_report(report)
    \/ get_status
    \/ \E t \in Tasks, service \in ServiceNames : remediate_service(t, service)
    \/ SendResponse
    \/ \E t \in Tasks : Remediate(t)

SpecSystem == Init /\ [][NextSystem]_vars

\* the whole server with one invocation and the reports of two services
NextFrame ==
    \/ \E report \in MainReports : receive_report(report)
    \/ get_status
    \/ \E service \in ServiceNames : remediate_service(1, service)
    \/ SendResponse
    \/ Remediate(1)

SpecFrame == Init /\ [][NextFrame]_vars

\* the registry alone, with every shape of report body
NextRegistry ==
    \/ \E report \in Reports : receive_report(report)
    \/ get_status
    \/ SendResponse

SpecRegistry == Init /\ [][NextRegistry]_vars

(***************************************************************************)
(* Properties                                                              *)
(***************************************************************************)
Contains(message, fragment) == \E k \in 1..Len(message) : message[k] = fragment
Ops(t) == {tasks[t].cmds[k].op : k \in 1..Len(tasks[t].cmds)}
Finished(t) == tasks[t].pc \in {"done", "returned"}
\* the outcome of an invocation that has appended
OutcomeOf(t) == remediation_log[tasks[t].appends[1]]
\* the rollout restart of t returned 0: it is followed by another command or by the wait
RestartSucceeded(t) ==
    \/ \E k \in 1..(Len(tasks[t].cmds) - 1) : tasks[t].cmds[k].op = "rollout restart"
    \/ tasks[t].pc = "rollout_wait"
OwnTunnel(t) == [owner |-> t, service |-> tasks[t].service]
IsPrefix(a, b) == Len(a) <= Len(b) /\ SubSeq(b, 1, Len(a)) = a

\* C1: for a service name other than vault, consul and elasticsearch the
\* invocation runs no command at all and, once it has finished, has appended
\* exactly one outcome: failed, "No remediation implemented for service 'name'".
C1_UnsupportedFailsWithoutCommands ==
    \A t \in Tasks :
        tasks[t].service \notin {None, "vault", "consul", "elasticsearch"} =>
            /\ tasks[t].cmds = <<>>
            /\ ~tasks[t].looked
            /\ ~(loop = t /\ inflight # "none")
            /\ Len(tasks[t].appends) = IF Finished(t) THEN 1 ELSE 0
            /\ Finished(t) =>
                 /\ OutcomeOf(t).status = "failed"
                 /\ OutcomeOf(t).service = tasks[t].service
                 /\ OutcomeOf(t).message =
                        <<"No remediation implemented for service '", tasks[t].service, "'">>

C1_Witness ==
    \E t \in Tasks :
        /\ tasks[t].service = "redis" /\ tasks[t].pc = "done"
        /\ OutcomeOf(t).status = "failed"

\* C2: once the replica count read is 0, the next command is a scale to the
\* service's default (vault 1, consul 3, elasticsearch 3), and every rollout
\* restart of such an attempt has that scale before it.
C2_Default(service) == IF service = "vault" THEN 1 ELSE 3
C2_ReadZero(t) ==
    /\ "get replicas" \in Ops(t)
    /\ ~(tasks[t].pc = "get_replicas")
    /\ tasks[t].current_replicas = 0
C2_ScaleBeforeRestart ==
    \A t \in Tasks :
        C2_ReadZero(t) =>
            LET c == tasks[t].cmds IN
            /\ \/ At(t, "scale")
               \/ \E j \in 1..Len(c) : c[j].op = "scale" /\ c[j].replicas = C2_Default(tasks[t].service)
            /\ \A k \in 1..Len(c) :
                 c[k].op = "rollout restart" =>
                    /\ \E j \in 1..(k - 1) :
                          c[j].op = "scale" /\ c[j].replicas = C2_Default(tasks[t].service)
                    /\ \A j \in 1..(k - 1) : c[j].op # "rollout restart"

C2_Witness ==
    \E t \in Tasks :
        /\ C2_ReadZero(t) /\ tasks[t].service = "consul"
        /\ "scale" \in Ops(t) /\ "rollout restart" \in Ops(t)

\* C3: an attempt whose rollout restart succeeded ends with a success outcome,
\* and if its tunnel did not start (Popen raised, or the process had exited
\* at the check) the message carries the warning.
C3_TunnelFailureStillSuccess ==
    \A t \in Tasks :
        tasks[t].pc = "done" /\ RestartSucceeded(t) =>
            /\ OutcomeOf(t).status = "success"
            /\ OwnTunnel(t) \notin tunnels =>
                 /\ Contains(OutcomeOf(t).message,
                       " Warning: Failed to restart port-forward - you may need to restart manually.")
                 /\ ~Contains(OutcomeOf(t).message, " Port-forward restarted on port ")

C3_Witness ==
    \E t \in Tasks :
        /\ tasks[t].pc = "done" /\ RestartSucceeded(t)
        /\ "port-forward" \in Ops(t)
        /\ OwnTunnel(t) \notin tunnels
        /\ OutcomeOf(t).status = "success"

\* C4 (as claimed): when the locator and the fallback find nothing, the failed
\* outcome's message lists every (namespace, workload) pair of search_configs.
C4_Lists(message, ns, sts) ==
    \E k \in 1..(Len(message) - 3) :
        message[k] = "  - " /\ message[k + 1] = ns /\ message[k + 2] = "/" /\ message[k + 3] = sts
C4_NotFoundListsEveryCandidate ==
    \A t \in Tasks :
        /\ tasks[t].pc = "done"
        /\ tasks[t].service = "elasticsearch"
        /\ tasks[t].namespace = None
        => /\ OutcomeOf(t).status = "failed"
           /\ \A k \in 1..Len(search_configs) :
                 C4_Lists(OutcomeOf(t).message, search_configs[k][1], search_configs[k][2])

\* C5: every invocation that has finished has appended exactly one outcome,
\* every other invocation none; the history holds exactly the outcomes of the
\* finished invocations, each at its own position; and an invocation that has
\* appended runs nothing more.
C5_Inv ==
    /\ \A t \in Tasks : Len(tasks[t].appends) = IF Finished(t) THEN 1 ELSE 0
    /\ \A t \in Tasks :
         Finished(t) => /\ tasks[t].appends[1] \in 1..Len(remediation_log)
                        /\ OutcomeOf(t).service = tasks[t].service
                        /\ OutcomeOf(t).status \in {"success", "failed"}
    /\ \A t, u \in Tasks :
         Finished(t) /\ Finished(u) /\ t # u => tasks[t].appends[1] # tasks[u].appends[1]
    /\ Len(remediation_log) = Cardinality({t \in Tasks : Finished(t)})
    /\ \A t \in Tasks : tasks[t].pc = "done" => loop = t /\ inflight = "none"
C5_Step ==
    \A t \in Tasks :
        /\ Len(tasks'[t].appends) > Len(tasks[t].appends) =>
              Len(remediation_log') = Len(remediation_log) + 1
        /\ tasks[t].pc = "done" => tasks'[t].pc \in {"done", "returned"}
        /\ tasks[t].pc = "returned" => tasks'[t] = tasks[t]
C5_ExactlyOneOutcome == [](C5_Inv) /\ [][C5_Step]_vars

C5_Witness ==
    /\ \A t \in Tasks : Finished(t)
    /\ \E t, u \in Tasks :
         /\ t # u
         /\ OutcomeOf(t).status = "failed" /\ OutcomeOf(u).status = "success"
         /\ tasks[t].appends[1] < tasks[u].appends[1] /\ t > u

\* C6 (as claimed): a status response holds an entry for the key of a
\* (cluster, service) pair exactly if a report for the pair was received, and
\* the entry carries the values of the pair's most recent report.
C6_Key(pair) == pair[1] \o <<"-">> \o pair[2]
C6_LastWriteWinsPerServiceKey ==
    response.for = "status" =>
        \A pair \in ReportTargets :
            /\ C6_Key(pair) \in DOMAIN response.body.status <=> pair \in DOMAIN reported
            /\ pair \in DOMAIN reported =>
                 \A f \in DOMAIN reported[pair] \ {"cluster", "service"} :
                     response.body.status[C6_Key(pair)][f] = reported[pair][f]

\* C7: every step leaves the history as it was or extends it at the end.
C7_HistoryAppendOnly == [][IsPrefix(remediation_log, remediation_log')]_vars

C7_Witness ==
    /\ Len(remediation_log) = 2
    /\ DOMAIN status # {}
    /\ response.for = "status"

\* C8: a success message says "Scaled from 0 to N" exactly if the attempt issued
\* a scale to N, N the service's default; an attempt that read 0 replicas and
\* whose restart succeeded reports it; one that did not scale reports a
\* rolling restart.
C8_Scaled(t) == \E k \in 1..Len(tasks[t].cmds) : tasks[t].cmds[k].op = "scale"
C8_ScaledTextIffScaled ==
    \A t \in Tasks :
        tasks[t].pc = "done" =>
            LET m == OutcomeOf(t).message
                n == C2_Default(tasks[t].service)
            IN  /\ OutcomeOf(t).status = "success" =>
                     /\ Contains(m, " Scaled from 0 to ") <=> C8_Scaled(t)
                     /\ Contains(m, " Performed rolling restart.") <=> ~C8_Scaled(t)
                     /\ C8_Scaled(t) =>
                          /\ \E k \in 1..(Len(m) - 1) :
                                m[k] = " Scaled from 0 to " /\ m[k + 1] = ToString(n)
                          /\ \A k \in 1..Len(tasks[t].cmds) :
                                tasks[t].cmds[k].op = "scale" => tasks[t].cmds[k].replicas = n
                /\ C2_ReadZero(t) /\ RestartSucceeded(t) =>
                     OutcomeOf(t).status = "success" /\ Contains(m, " Scaled from 0 to ")

C8_Witness ==
    \E t \in Tasks :
        /\ tasks[t].pc = "done" /\ tasks[t].service = "vault"
        /\ OutcomeOf(t).status = "success"
        /\ \E k \in 1..(Len(OutcomeOf(t).message) - 1) :
              OutcomeOf(t).message[k] = " Scaled from 0 to " /\ OutcomeOf(t).message[k + 1] = "1"

\* C9: while the trigger's acknowledgment is being sent, the triggered
\* invocation has run no command and appended nothing, and the acknowledgment
\* is the "started" message with the service name and nothing else; an
\* invocation has an outcome in the history only after its acknowledgment left.
C9_AckBeforeOutcome ==
    /\ \A t \in Tasks :
         tasks[t].pc \in {"idle", "queued"} =>
            /\ tasks[t].cmds = <<>> /\ ~tasks[t].looked /\ tasks[t].appends = <<>>
            /\ loop # t
    /\ (\E t \in Tasks : tasks[t].pc = "queued") <=> response.for = "trigger"
    /\ response.for = "trigger" =>
         /\ DOMAIN response = {"for", "message", "service"}
         /\ \E t \in Tasks :
              /\ tasks[t].pc = "queued"
              /\ response.service = tasks[t].service
              /\ response.message = <<"Remediation started for ", tasks[t].service>>
         /\ Len(remediation_log) = Cardinality({t \in Tasks : Finished(t)})

C9_Witness ==
    /\ response.for = "trigger"
    /\ \E t \in Tasks : tasks[t].pc = "queued" /\ tasks[t].service = "vault"

\* C10 (as claimed): whenever an attempt waits on an external command or on a
\* delay, a status query and a report can be processed.
C10_Waiting(t) ==
    \/ loop = t /\ inflight \in {"cmd", "sleep"}
    \/ tasks[t].pc \in AwaitPcs
C10_WaitsDoNotBlockHandlers ==
    \A t \in Tasks :
        C10_Waiting(t) /\ response.for = "none" =>
            /\ ENABLED get_status
            /\ ENABLED (\E report \in AgentReports : receive_report(report))

\* C11: an invocation issues the rollout restart at most once, and exactly
\* when the validation exited 0 and either the replica count read was not 0 or
\* the scale exited 0; when the validation or the scale did not exit 0 the
\* outcome is failed and no rollout restart, endpoint poll or tunnel command
\* follows.
C11_Count(t, op) == Cardinality({k \in 1..Len(tasks[t].cmds) : tasks[t].cmds[k].op = op})
C11_RestartIffValidatedAndScaled ==
    \A t \in Tasks :
        LET c == tasks[t].cmds
            n == Len(c)
        IN  /\ C11_Count(t, "rollout restart") <= 1
            /\ \A k \in 1..n :
                 c[k].op = "rollout restart" =>
                    /\ c[1].op = "get statefulset" /\ c[2].op = "get replicas"
                    /\ \/ k = 3 /\ tasks[t].current_replicas # 0
                       \/ k = 4 /\ c[3].op = "scale" /\ tasks[t].current_replicas = 0
            \* validated and nothing to scale, or scaled: the restart is what comes next
            /\ /\ n > 0 /\ tasks[t].failure.at = None
               /\ \/ c[n].op = "get replicas" /\ tasks[t].pc # "get_replicas"
                                               /\ tasks[t].current_replicas # 0
                  \/ c[n].op = "scale" /\ tasks[t].pc # "scale"
               => tasks[t].pc \in {"warmup", "restart"}
            /\ tasks[t].failure.at \in {"check_sts", "scale"} =>
                  /\ tasks[t].pc = "done"
                  /\ OutcomeOf(t).status = "failed"
                  /\ c[n].op = (IF tasks[t].failure.at = "scale" THEN "scale" ELSE "get statefulset")
                  /\ Ops(t) \cap {"rollout restart", "get svc", "pkill", "port-forward"} = {}
            /\ tasks[t].pc = "done" /\ "rollout restart" \notin Ops(t) =>
                  OutcomeOf(t).status = "failed"

C11_Witness ==
    \E t, u \in Tasks :
        /\ tasks[t].pc = "done" /\ tasks[t].failure.at = "scale"
        /\ tasks[u].pc = "rollout_wait" /\ C11_Count(u, "scale") = 1
        /\ C11_Count(u, "rollout restart") = 1

\* C12: when the rollout restart exits non-zero or times out, the attempt
\* appends one failed outcome whose message is the command's stderr (or the
\* exception text when stderr is empty) or the timeout marker, and it runs no
\* readiness poll, tunnel teardown or tunnel start.
C12_RestartFailureEndsAttempt ==
    \A t \in Tasks :
        LET f == tasks[t].failure IN
        f.at = "restart" /\ f.res \in {"nonzero", "timeout"} =>
            /\ tasks[t].pc = "done"
            /\ Len(tasks[t].appends) = 1
            /\ OutcomeOf(t).status = "failed"
            /\ OutcomeOf(t).service = tasks[t].service
            /\ OutcomeOf(t).message =
                  (IF f.res = "timeout" THEN <<"Remediation command timed out">>
                   ELSE <<"Kubectl command failed: ",
                          IF f.err # "" THEN f.err ELSE "Command returned non-zero exit status 1.">>)
            /\ tasks[t].cmds[Len(tasks[t].cmds)].op = "rollout restart"
            /\ Ops(t) \cap {"get svc", "pkill", "port-forward"} = {}
            /\ OwnTunnel(t) \notin tunnels

C12_Witness ==
    \E t \in Tasks :
        /\ tasks[t].pc = "done" /\ tasks[t].failure.at = "restart" /\ tasks[t].failure.res = "nonzero"
        /\ tasks[t].failure.err = "denied"
        /\ "scale" \in Ops(t)

\* C13: the endpoint is polled at most 6 times, only after the rollout
\* restart and before the tunnel commands; a poll that exits 0 is the last
\* poll; the tunnel commands start only after a poll that exited 0 or after
\* the 6th poll; and an attempt that polled ends with a success outcome, also
\* when all 6 polls failed.
C13_Polls(t) == Cardinality({k \in 1..Len(tasks[t].cmds) : tasks[t].cmds[k].op = "get svc"})
C13_Restoring(t) == tasks[t].pc \in {"kill_pf", "kill_sleep", "start_pf", "pf_sleep"}
C13_PollingBoundedAndSoft ==
    \A t \in Tasks :
        LET c == tasks[t].cmds IN
        /\ C13_Polls(t) <= 6
        /\ \A k \in 1..Len(c) :
             c[k].op = "get svc" =>
                /\ k > 1 /\ c[k - 1].op \in {"rollout restart", "get svc"}
                /\ c[k].name = tasks[t].service_name /\ c[k].namespace = tasks[t].namespace
        /\ tasks[t].ready =>
             /\ C13_Polls(t) >= 1
             /\ C13_Restoring(t) \/ tasks[t].pc = "done"
        /\ C13_Restoring(t) /\ ~tasks[t].ready => C13_Polls(t) = 6
        /\ tasks[t].pc = "done" /\ C13_Polls(t) >= 1 =>
             /\ OutcomeOf(t).status = "success"
             /\ "pkill" \in Ops(t)
             /\ tasks[t].ready \/ C13_Polls(t) = 6

C13_Witness ==
    \E t \in Tasks :
        /\ tasks[t].pc = "done" /\ C13_Polls(t) = 6 /\ ~tasks[t].ready
        /\ "port-forward" \in Ops(t)
        /\ OutcomeOf(t).status = "success"

\* C14 (as claimed): the success message of an attempt whose 6 polls all
\* failed carries a fragment that the message of an attempt whose poll
\* succeeded never carries.
C14_ReadyFragments(t) ==
    {"Remediation completed for ", tasks[t].service, ".",
     " Scaled from 0 to ", ToString(tasks[t].default_replicas), " replicas and restarted.",
     " Performed rolling restart.",
     " Port-forward restarted on port ", ToString(PORT_FORWARDS[tasks[t].service].port),
     " Warning: Failed to restart port-forward - you may need to restart manually.",
     " Found in namespace: ", tasks[t].namespace, " as StatefulSet: ", tasks[t].statefulset_name}
C14_ExhaustedPollingIsNoted ==
    \A t \in Tasks :
        /\ tasks[t].pc = "done" /\ OutcomeOf(t).status = "success"
        /\ C13_Polls(t) = 6 /\ ~tasks[t].ready
        => \E k \in 1..Len(OutcomeOf(t).message) :
              OutcomeOf(t).message[k] \notin C14_ReadyFragments(t)

\* C15: under fair scheduling every triggered invocation ends with its outcome
\* in the history; the locator makes at most 3 rounds, the readiness poll at
\* most 6 iterations, and an invocation validates at most once and never
\* leaves its final position.
C15_Bounded ==
    \A t \in Tasks :
        /\ tasks[t].attempt \in 0..2
        /\ tasks[t].i \in 0..5
        /\ Cardinality({k \in 1..Len(tasks[t].cmds) : tasks[t].cmds[k].op = "get svc"}) <= 6
        /\ Cardinality({k \in 1..Len(tasks[t].cmds) : tasks[t].cmds[k].op = "get statefulset"}) <= 1
C15_NoRestart ==
    \A t \in Tasks :
        /\ tasks[t].pc = "returned" => tasks'[t].pc = "returned"
        /\ tasks'[t].pc = "dispatch" => tasks[t].pc \in {"queued", "dispatch"}
C15_EveryInvocationTerminates ==
    /\ \A t \in Tasks :
          (tasks[t].pc = "queued") ~>
              (/\ tasks[t].pc = "returned"
               /\ Len(tasks[t].appends) = 1
               /\ remediation_log[tasks[t].appends[1]].service = tasks[t].service
               /\ remediation_log[tasks[t].appends[1]].status \in {"success", "failed"})
    /\ []C15_Bounded
    /\ [][C15_NoRestart]_vars

C15_Witness ==
    \E t, u \in Tasks :
        /\ t # u
        /\ tasks[t].pc = "done" /\ tasks[t].service = "elasticsearch"
        /\ C13_Polls(t) = 6 /\ OutcomeOf(t).status = "success"
        /\ tasks[u].pc = "returned" /\ tasks[u].service = "vault"
        /\ remediation_log[tasks[u].appends[1]].status = "failed"

\* C16 (as claimed): while a scale or a rollout restart of an invocation is
\* running, the registry holds an unhealthy record for the invocation's service.
C16_Unhealthy(service) ==
    \E k \in DOMAIN status : k[Len(k)] = service /\ ~status[k].healthy
C16_MutatesOnlyWhenUnhealthy ==
    \A t \in Tasks :
        loop = t /\ inflight = "cmd" /\ tasks[t].pc \in {"scale", "restart"} =>
            C16_Unhealthy(tasks[t].service)

\* C17 (as claimed): the locator scans search_configs in order for at most 3
\* rounds; once the namespace lookup and the workload lookup of a candidate
\* have exited 0 it returns that candidate and looks no further; a lookup
\* that fails only moves it to the next candidate; it gives up only at the end
\* of the 3rd round; it never raises.
C17_InLocator(r) == r.pc \in {"find_ns", "find_sts", "find_svc", "find_allsvc", "find_sleep"}
C17_Step ==
    \A t \in Tasks :
        LET r == tasks[t]
            q == tasks'[t]
        IN  C17_InLocator(r) /\ q # r =>
                \* never raises: no outcome is appended from inside the locator
                /\ remediation_log' = remediation_log
                /\ q.looked
                \* in order, at most 3 rounds
                /\ r.attempt \in 0..2 /\ r.idx \in 1..Len(search_configs)
                /\ C17_InLocator(q) =>
                      \/ q.attempt = r.attempt /\ q.idx = r.idx
                      \/ q.attempt = r.attempt /\ q.idx = r.idx + 1 /\ q.pc = "find_ns"
                      \/ q.attempt = r.attempt /\ r.idx = Len(search_configs) /\ q.pc = "find_sleep"
                      \/ q.attempt = r.attempt + 1 /\ q.idx = 1 /\ r.pc = "find_sleep"
                \* the namespace and the workload exist: this candidate is returned
                /\ inflight = "cmd" /\ r.pc \in {"find_svc", "find_allsvc"} =>
                      \/ q.pc = "find_allsvc" /\ r.pc = "find_svc"
                      \/ /\ q.pc = "check_sts"
                         /\ q.namespace = search_configs[r.idx][1]
                         /\ q.statefulset_name = search_configs[r.idx][2]
                \* returned only from such a candidate, not found only after 3 rounds
                /\ q.pc = "check_sts" => r.pc \in {"find_svc", "find_allsvc"}
                /\ ~C17_InLocator(q) /\ q.pc # "check_sts" =>
                      /\ q.pc = "fallback"
                      /\ r.attempt = 2 /\ r.idx = Len(search_configs)
C17_LocatorReturnsFirstMatch == [][C17_Step]_vars

\* C18: where the locator returns, the namespace and the workload name are
\* those of the candidate it stopped at, and the service name is the
\* candidate's declared service if its lookup exited 0, else the first listed
\* service whose name contains "elasticsearch" (in any case of letters), else
\* the workload name.
C18_Matches(line) ==
    line[2] \in {"elasticsearch", "elasticsearch-master", "elasticsearch-data", "Elasticsearch-data"}
C18_EndpointChoice ==
    \A t \in Tasks :
        LET l == tasks[t].located
            c == search_configs[l.idx]
            hits == IF l.list = "ok" THEN {k \in 1..Len(l.lines) : C18_Matches(l.lines[k])} ELSE {}
        IN  l.idx # 0 =>
                /\ tasks[t].pc = "check_sts"
                /\ tasks[t].namespace = c[1]
                /\ tasks[t].statefulset_name = c[2]
                /\ tasks[t].service_name =
                      (IF l.svc = "ok" THEN c[3]
                       ELSE IF hits # {}
                            THEN l.lines[CHOOSE k \in hits : \A j \in hits : k <= j][2]
                            ELSE c[2])

C18_Witness ==
    \E t \in Tasks :
        /\ tasks[t].located.idx = 3 /\ tasks[t].located.list = "ok"
        /\ Len(tasks[t].located.lines) = 3
        /\ tasks[t].service_name = "Elasticsearch-data"
        /\ tasks[t].statefulset_name = "elasticsearch-master"

\* C19: a step that changes the registry is a report: it changes the entry of
\* the report's key only and leaves the history and the invocations alone;
\* a step of an invocation, a step that appends to the history and a status
\* query leave the registry unchanged.
C19_Step ==
    /\ status' # status =>
          /\ response'.for = "report" /\ response.for = "none"
          /\ response'.key \in DOMAIN status'
          /\ \A k \in (DOMAIN status \cup DOMAIN status') \ {response'.key} :
                k \in DOMAIN status /\ k \in DOMAIN status' /\ status'[k] = status[k]
    /\ response'.for = "report" /\ response.for = "none" =>
          /\ remediation_log' = remediation_log
          /\ tasks' = tasks /\ tunnels' = tunnels
          /\ DOMAIN status' = DOMAIN status \cup {response'.key}
    /\ \/ tasks' # tasks
       \/ remediation_log' # remediation_log
       \/ response'.for = "status"
       => status' = status
C19_RegistryAndHistoryIndependent == [][C19_Step]_vars

C19_Witness ==
    /\ Cardinality(DOMAIN status) = 2
    /\ \E k \in DOMAIN status : status[k].healthy
    /\ Len(remediation_log) = 1 /\ remediation_log[1].status = "success"
    /\ response.for = "report"

\* C20 (as claimed): two different (cluster, service) pairs that have reported
\* never have the same registry key.
C20_Key(pair) == pair[1] \o <<"-">> \o pair[2]
C20_KeyIdentifiesPair ==
    \A p, q \in DOMAIN reported : p # q => C20_Key(p) # C20_Key(q)

\* C21 (as claimed): a scale command is issued only for a workload whose
\* replica count really was 0 when it was read.
C21_ScaleOnlyWhenReallyZero ==
    \A t \in Tasks :
        \A k \in 1..Len(tasks[t].cmds) :
            tasks[t].cmds[k].op = "scale" => tasks[t].real_replicas = 0

\* C22: the tunnel commands are run only by an attempt whose rollout restart
\* exited 0, after its readiness polling, the teardown right before the
\* start, each at most once; an attempt that ends failed has run neither and
\* owns no tunnel; and only a step of such an attempt inside
\* start_port_forward changes the set of tunnels.
C22_Inv ==
    \A t \in Tasks :
        LET c == tasks[t].cmds IN
        /\ \A k \in 1..Len(c) :
             /\ c[k].op = "pkill" =>
                   /\ k > 1 /\ c[k - 1].op = "get svc"
                   /\ \E j \in 1..(k - 1) : c[j].op = "rollout restart"
                   /\ \A j \in 1..Len(c) : c[j].op = "pkill" => j = k
                   /\ tasks[t].failure.at = None
             /\ c[k].op = "port-forward" =>
                   /\ k > 1 /\ c[k - 1].op = "pkill"
                   /\ k = Len(c)
        /\ tasks[t].pc = "done" /\ OutcomeOf(t).status = "failed" =>
             /\ Ops(t) \cap {"pkill", "port-forward"} = {}
             /\ OwnTunnel(t) \notin tunnels
        /\ tasks[t].pc \notin {"returned", "idle"} /\ [owner |-> t, service |-> tasks[t].service] \in tunnels =>
             "port-forward" \in Ops(t)
C22_Step ==
    tunnels' # tunnels =>
        \E t \in Tasks :
            /\ loop = t
            /\ \/ inflight = "cmd" /\ tasks[t].pc \in {"kill_pf", "start_pf"}
               \/ inflight = "sleep" /\ tasks[t].pc = "pf_sleep"
            /\ tasks[t].failure.at = None
            /\ \E k \in 1..Len(tasks[t].cmds) : tasks[t].cmds[k].op = "rollout restart"
            /\ \A p \in (tunnels \ tunnels') \cup (tunnels' \ tunnels) : p.service = tasks[t].service
C22_TunnelOnlyAfterRestart == [](C22_Inv) /\ [][C22_Step]_vars

C22_Witness ==
    \E t, u \in Tasks :
        /\ t # u /\ tasks[t].service = "vault" /\ tasks[u].service = "vault"
        /\ tasks[u].pc = "returned" /\ [owner |-> u, service |-> "vault"] \in tunnels
        /\ tasks[t].pc = "done" /\ OutcomeOf(t).status = "failed"
        /\ tasks[t].failure.at = "restart"

\* C23 (as claimed): at most one tunnel process per service is alive, and an
\* attempt whose success message says the port-forward was restarted owns a
\* running tunnel when it appends the outcome.
C23_OneTunnelPerService ==
    /\ \A p, q \in tunnels : p.service = q.service => p = q
    /\ \A t \in Tasks :
          /\ tasks[t].pc = "done"
          /\ OutcomeOf(t).status = "success"
          /\ \E k \in 1..Len(OutcomeOf(t).message) :
                OutcomeOf(t).message[k] = " Port-forward restarted on port "
          => [owner |-> t, service |-> tasks[t].service] \in tunnels

====
